---- MODULE Spec2Model ----
(***************************************************************************)
(* Model of template_upload/s3_docs.py: DocxS3Uploader.upload_folder, the   *)
(* bucket probing it performs, and the concurrent upload_file tasks it      *)
(* gathers.  Strings are sequences of tokens (a token is a separator        *)
(* character or a run of characters holding no separator), so that          *)
(* concatenation and str.replace are computed, not assumed.                 *)
(***************************************************************************)
EXTENDS Integers, Sequences, FiniteSets, TLC

\* Number of directory entries the scanned folder may hold.
MaxFiles == 4

----------------------------------------------------------------------------
\* Strings and values

None == <<>>
Some(u) == <<u>>

\* __init__: endpoint_url default and bucket_name
endpoint_url == <<"https:", "/", "/", "s3.firstvds.ru:443">>
bucket_name == "docs"

\* upload_folder arguments
folder_path == <<"templates">>
Prefixes == {<<>>, <<"out", "/">>, <<"out", "\\">>}
Separators == {"/", "\\"}

\* The entries the folder may hold: entry i lives under sub/dir when i is
\* even, and is a .docx file unless i is a multiple of 3.
FileIds == 1..MaxFiles
DirParts(i) == IF i % 2 = 0 THEN <<"sub", "dir">> ELSE <<>>
NameTokens(i) == <<"f" \o ToString(i), IF i % 3 = 0 THEN ".txt" ELSE ".docx">>

RECURSIVE JoinDirs(_, _)
JoinDirs(parts, s) ==
    IF parts = <<>> THEN <<>>
    ELSE <<Head(parts), s>> \o JoinDirs(Tail(parts), s)

\* str(file_path.relative_to(folder)) on a host whose separator is s
RelativePath(i, s) == JoinDirs(DirParts(i), s) \o NameTokens(i)

\* str(file_path)
StrPath(i, s) == folder_path \o <<s>> \o RelativePath(i, s)

\* folder.glob("**/*.docx"): the entries whose name ends in .docx
GlobMatches(i) == NameTokens(i)[Len(NameTokens(i))] = ".docx"

RECURSIVE SortedSeq(_)
SortedSeq(S) ==
    IF S = {} THEN <<>>
    ELSE LET m == CHOOSE x \in S : \A y \in S : x <= y
         IN <<m>> \o SortedSeq(S \ {m})

Glob(entries) == SortedSeq({i \in entries : GlobMatches(i)})

\* an object name left with the host's separators
ReplaceBackslash_Identity(s) == s

\* str.replace("\\", "/")
ReplaceBackslash(s) == [k \in 1..Len(s) |-> IF s[k] = "\\" THEN "/" ELSE s[k]]

\* object_name = f"{prefix}{relative_path}" if prefix else str(relative_path)
ObjectName(pfx, rel) ==
    ReplaceBackslash(IF pfx # <<>> THEN pfx \o rel ELSE rel)

\* a fallback URL that leaves the bucket out of the path
FallbackUrl_NoBucket(key) == endpoint_url \o <<"/">> \o key

\* get_file_url: the path-style URL returned when signing faults
FallbackUrl(key) == endpoint_url \o <<"/">> \o <<bucket_name>> \o <<"/">> \o key

\* the URL generate_presigned_url returns
PresignedUrl(key) ==
    endpoint_url \o <<"/">> \o <<bucket_name>> \o <<"/">> \o key \o <<"?", "X-Amz-Signature">>

\* get_file_url with an except branch that returns an empty string
GetFileUrl_EmptyOnFault(key, signing) ==
    IF signing = "ok" THEN PresignedUrl(key) ELSE <<>>

\* get_file_url(object_key), given how generate_presigned_url ended
GetFileUrl(key, signing) ==
    IF signing = "ok" THEN PresignedUrl(key) ELSE FallbackUrl(key)

----------------------------------------------------------------------------
\* State

VARIABLES
    pc,              \* where the batch driver (upload_folder) stands
    sep,             \* the host's path separator
    prefix,          \* upload_folder's prefix argument
    buckets,         \* the list list_buckets returned
    headOutcome,     \* how head_bucket ended ("unset" before the call)
    createOutcome,   \* how create_bucket ended ("unset" before the call)
    bucket_created,  \* what create_bucket_if_not_exists returned
    folderKind,      \* what the stat of folder_path found ("unset" before)
    docx_files,      \* the files the glob returned, in glob order
    object_names,    \* the object key of each task
    taskPc,          \* where each upload_file task stands
    taskFault,       \* the fault that ended each task's upload, or "none"
    signing,         \* how generate_presigned_url ended for each task
    scopes,          \* the connection scopes each task holds open
    results,         \* what each task handed to asyncio.gather
    upload_results,  \* the dictionary upload_folder builds
    abort,           \* the early return upload_folder took, or "none"
    calls,           \* the store and filesystem calls issued so far
    listOutcome,     \* how list_buckets' store call ended ("unset" before)
    driverScopes,    \* the connection scopes the driver's own calls hold open
    firstSettled,    \* the task that settled first (0 while none has)
    environ,         \* os.environ: the value of each variable that is set
    initial_environ, \* os.environ as the process found it
    cleared,         \* how many times clear_proxy_environment has returned
    keyError         \* whether a del os.environ[var] has raised KeyError

vars == <<pc, sep, prefix, buckets, headOutcome, createOutcome, bucket_created,
          folderKind, docx_files, object_names, taskPc, taskFault, signing,
          scopes, results, upload_results, abort, calls, listOutcome,
          driverScopes, firstSettled, environ, initial_environ, cleared, keyError>>

bucketVars == <<buckets, headOutcome, createOutcome, bucket_created, listOutcome,
                driverScopes>>
taskVars == <<docx_files, object_names, taskPc, taskFault, signing, scopes, results,
              firstSettled>>
envVars == <<environ, initial_environ, cleared, keyError>>

Range(s) == {s[k] : k \in 1..Len(s)}
Tasks == 1..Len(docx_files)

Bump(c, op) == [c EXCEPT ![op] = @ + 1]

\* What the store and the filesystem may answer
Listings == {<<>>, <<"other">>, <<"other", bucket_name>>}
ListOutcomes == {"ok", "fault"}
HeadOutcomes == {"ok", "404", "403", "other", "unexpected"}
CreateOutcomes == {"ok", "client", "unexpected"}
FolderKinds == {"dir", "missing", "file", "denied"}
ScanOutcomes == {"ok", "oserror"}
BeginOutcomes == {"ok", "connect"}
ReadOutcomes == {"ok", "io"}
PutOutcomes == {"ok", "client", "unexpected"}
SignOutcomes == {"ok", "fault"}

\* an environment that sets no proxy variable
BaseEnviron == [k \in {"PATH"} |-> "set"]

Pending == [kind |-> "pending", success |-> FALSE, url |-> None]
Returned(ok, u) == [kind |-> "value", success |-> ok, url |-> u]

\* the uploader as __init__ leaves it, before upload_folder is called
UploaderInit ==
    /\ pc = "Idle"
    /\ sep \in Separators
    /\ prefix = <<>>
    /\ buckets = <<>>
    /\ headOutcome = "unset"
    /\ createOutcome = "unset"
    /\ bucket_created = FALSE
    /\ folderKind = "unset"
    /\ docx_files = <<>>
    /\ object_names = <<>>
    /\ taskPc = <<>>
    /\ taskFault = <<>>
    /\ signing = <<>>
    /\ scopes = <<>>
    /\ results = <<>>
    /\ upload_results = <<>>
    /\ abort = "none"
    /\ calls = [list |-> 0, head |-> 0, create |-> 0, stat |-> 0, scan |-> 0,
                read |-> 0, put |-> 0, presign |-> 0]
    /\ listOutcome = "unset"
    /\ driverScopes = 0
    /\ firstSettled = 0

\* main: clear_proxy_environment() has run before the uploader is constructed
Init ==
    /\ UploaderInit
    /\ initial_environ = BaseEnviron
    /\ environ = BaseEnviron
    /\ cleared = 1
    /\ keyError = FALSE

----------------------------------------------------------------------------
\* The bucket operations

\* a client used without "async with": leaving the block releases nothing
ExitScope_Leak(n) == n

\* leaving an "async with session.client(...)" block, by return or by exception,
\* releases the scope it opened
ExitScope(n) == n - 1

\* list_buckets: the names listed, or [] when the call faults
ListBucketsResult(outcome, listing) ==
    IF outcome = "ok" THEN listing ELSE <<>>

\* check_bucket_exists: True only when head_bucket answers
CheckBucketExists(head) == head = "ok"

\* create_bucket_if_not_exists with an except branch that reports success
CreateBucketResult_AlwaysTrue(create) == TRUE

\* create_bucket_if_not_exists, past the check: True only when create_bucket answers
CreateBucketResult(create) == create = "ok"

\* an upload_folder that probes the bucket whatever the listing holds
BucketMissing_Always(listing) == TRUE

\* upload_folder: if self.bucket_name not in buckets
BucketMissing(listing) == bucket_name \notin Range(listing)

\* upload_folder is called
Start ==
    /\ pc = "Idle"
    /\ \E p \in Prefixes : prefix' = p
    /\ pc' = "ListingBuckets"
    /\ UNCHANGED <<sep, bucketVars, folderKind, taskVars, upload_results, abort, calls, envVars>>

\* upload_folder without the "if not buckets" return
AfterListing_NoEmptyCheck(b) ==
    IF BucketMissing(b) THEN "CheckingBucket" ELSE "Validating"

\* upload_folder without the "bucket_name not in buckets" branch
AfterListing_SkipEnsure(b) ==
    IF b = <<>> THEN "EmptyResult" ELSE "Validating"

\* where upload_folder goes once list_buckets has returned: return {} on an
\* empty list, the bucket probe when the bucket is not listed, the folder otherwise
AfterListing(b) ==
    IF b = <<>> THEN "EmptyResult"
    ELSE IF BucketMissing(b) THEN "CheckingBucket" ELSE "Validating"

\* buckets = await self.list_buckets(); if not buckets: return {}
ListBuckets ==
    /\ pc = "ListingBuckets"
    /\ \E o \in ListOutcomes, l \in Listings :
          /\ listOutcome' = o
          /\ buckets' = ListBucketsResult(o, l)
          /\ pc' = AfterListing(buckets')
          /\ abort' = IF pc' = "EmptyResult" THEN "connectivity" ELSE abort
    /\ calls' = Bump(calls, "list")
    /\ driverScopes' = ExitScope(driverScopes + 1)
    /\ UNCHANGED <<sep, prefix, headOutcome, createOutcome, bucket_created,
                   folderKind, taskVars, upload_results, envVars>>

\* create_bucket_if_not_exists: if await self.check_bucket_exists(): return True
CheckBucket ==
    /\ pc = "CheckingBucket"
    /\ \E h \in HeadOutcomes :
          /\ headOutcome' = h
          /\ IF CheckBucketExists(h)
             THEN bucket_created' = TRUE /\ pc' = "Validating"
             ELSE bucket_created' = bucket_created /\ pc' = "CreatingBucket"
    /\ calls' = Bump(calls, "head")
    /\ driverScopes' = ExitScope(driverScopes + 1)
    /\ UNCHANGED <<sep, prefix, buckets, listOutcome, createOutcome, folderKind,
                   taskVars, upload_results, abort, envVars>>

\* create_bucket_if_not_exists: create_bucket; upload_folder returns {} when it failed
CreateBucket ==
    /\ pc = "CreatingBucket"
    /\ \E c \in CreateOutcomes :
          /\ createOutcome' = c
          /\ bucket_created' = CreateBucketResult(c)
          /\ IF CreateBucketResult(c)
             THEN pc' = "Validating" /\ abort' = abort
             ELSE pc' = "EmptyResult" /\ abort' = "bucket"
    /\ calls' = Bump(calls, "create")
    /\ driverScopes' = ExitScope(driverScopes + 1)
    /\ UNCHANGED <<sep, prefix, buckets, listOutcome, headOutcome, folderKind,
                   taskVars, upload_results, envVars>>

----------------------------------------------------------------------------
\* The folder scan and the fan-out

\* folder = Path(folder_path); if not folder.exists() or not folder.is_dir(): return {}
\* (Path.exists re-raises an OSError whose errno it does not ignore, such as EACCES)
ValidateFolder ==
    /\ pc = "Validating"
    /\ \E kind \in FolderKinds :
          /\ folderKind' = kind
          /\ CASE kind = "dir" -> pc' = "Scanning" /\ abort' = abort
               [] kind = "denied" -> pc' = "Raised" /\ abort' = abort
               [] OTHER -> pc' = "EmptyResult" /\ abort' = "folder"
    /\ calls' = Bump(calls, "stat")
    /\ UNCHANGED <<sep, prefix, bucketVars, taskVars, upload_results, envVars>>

\* one coroutine per discovered file: self.upload_file(str(file_path), object_name)
ObjectNames(files, pfx, s) ==
    [k \in 1..Len(files) |-> ObjectName(pfx, RelativePath(files[k], s))]

\* docx_files = list(folder.glob("**/*.docx")); if not docx_files: return {};
\* then the loop that computes the object names and creates the tasks
ScanAndLaunch ==
    /\ pc = "Scanning"
    /\ calls' = Bump(calls, "scan")
    /\ \E o \in ScanOutcomes, entries \in SUBSET FileIds :
          IF o = "oserror"
          THEN /\ pc' = "Raised"
               /\ UNCHANGED <<taskVars, abort>>
          ELSE LET found == Glob(entries) IN
               /\ docx_files' = found
               /\ IF found = <<>>
                  THEN /\ pc' = "EmptyResult"
                       /\ abort' = "nofiles"
                       /\ UNCHANGED <<object_names, taskPc, taskFault, signing,
                                      scopes, results, firstSettled>>
                  ELSE /\ pc' = "Uploading"
                       /\ abort' = abort
                       /\ object_names' = ObjectNames(found, prefix, sep)
                       /\ taskPc' = [k \in 1..Len(found) |-> "start"]
                       /\ taskFault' = [k \in 1..Len(found) |-> "none"]
                       /\ signing' = [k \in 1..Len(found) |-> "unset"]
                       /\ scopes' = [k \in 1..Len(found) |-> 0]
                       /\ results' = [k \in 1..Len(found) |-> Pending]
                       /\ firstSettled' = firstSettled
    /\ UNCHANGED <<sep, prefix, bucketVars, folderKind, upload_results, envVars>>

----------------------------------------------------------------------------
\* upload_file, one task per discovered file

\* an upload_file with no "except Exception" branch: only ClientError is caught
UploadFileResult_OnlyClientError(fault, url) ==
    IF fault = "none" THEN Returned(TRUE, Some(url))
    ELSE IF fault = "client" THEN Returned(FALSE, None)
    ELSE [kind |-> "exception", success |-> FALSE, url |-> None]

\* an upload_file that reads the file outside its try block
UploadFileResult_IoPropagates(fault, url) ==
    IF fault = "none" THEN Returned(TRUE, Some(url))
    ELSE IF fault = "io" THEN [kind |-> "exception", success |-> FALSE, url |-> None]
    ELSE Returned(FALSE, None)

\* upload_file's return value, given how the read and put_object ended and
\* what get_file_url returned
UploadFileResult(fault, url) ==
    IF fault = "none" THEN Returned(TRUE, Some(url)) ELSE Returned(FALSE, None)

\* the task that settled first, once task k settles
FirstSettled(first, k) == IF first = 0 THEN k ELSE first

\* an upload_file whose get_file_url call sits in a finally block
AfterPut_AlwaysUrl(o) == "uploaded"

\* where upload_file goes once put_object has ended: on to get_file_url when
\* it succeeded, to an except branch and the return when it faulted
AfterPut(o) == IF o = "ok" THEN "uploaded" ELSE "settled"

\* async with session.client('s3', ...) as s3; a fault while the client is
\* being opened is caught by the except branches
T_Begin(k) ==
    /\ pc = "Uploading"
    /\ taskPc[k] = "start"
    /\ \E o \in BeginOutcomes :
          IF o = "ok"
          THEN /\ taskPc' = [taskPc EXCEPT ![k] = "opened"]
               /\ scopes' = [scopes EXCEPT ![k] = @ + 1]
               /\ UNCHANGED <<taskFault, results, firstSettled>>
          ELSE /\ taskPc' = [taskPc EXCEPT ![k] = "settled"]
               /\ taskFault' = [taskFault EXCEPT ![k] = o]
               /\ results' = [results EXCEPT ![k] = UploadFileResult(o, None)]
               /\ firstSettled' = FirstSettled(firstSettled, k)
               /\ UNCHANGED scopes
    /\ UNCHANGED <<pc, sep, prefix, bucketVars, folderKind, docx_files,
                   object_names, signing, upload_results, abort, calls, envVars>>

\* async with aiofiles.open(file_path, 'rb') as file: content = await file.read()
\* an OSError leaves both blocks and is caught by except Exception
T_Read(k) ==
    /\ pc = "Uploading"
    /\ taskPc[k] = "opened"
    /\ calls' = Bump(calls, "read")
    /\ \E o \in ReadOutcomes :
          IF o = "ok"
          THEN /\ taskPc' = [taskPc EXCEPT ![k] = "read"]
               /\ UNCHANGED <<taskFault, scopes, results, firstSettled>>
          ELSE /\ taskPc' = [taskPc EXCEPT ![k] = "settled"]
               /\ taskFault' = [taskFault EXCEPT ![k] = o]
               /\ scopes' = [scopes EXCEPT ![k] = ExitScope(@)]
               /\ results' = [results EXCEPT ![k] = UploadFileResult(o, None)]
               /\ firstSettled' = FirstSettled(firstSettled, k)
    /\ UNCHANGED <<pc, sep, prefix, bucketVars, folderKind, docx_files,
                   object_names, signing, upload_results, abort, envVars>>

\* await s3.put_object(...); the client scope is left either way
T_Put(k) ==
    /\ pc = "Uploading"
    /\ taskPc[k] = "read"
    /\ calls' = Bump(calls, "put")
    /\ scopes' = [scopes EXCEPT ![k] = ExitScope(@)]
    /\ \E o \in PutOutcomes :
          /\ taskPc' = [taskPc EXCEPT ![k] = AfterPut(o)]
          /\ IF o = "ok"
             THEN UNCHANGED <<taskFault, results, firstSettled>>
             ELSE /\ taskFault' = [taskFault EXCEPT ![k] = o]
                  /\ results' = [results EXCEPT ![k] = UploadFileResult(o, None)]
                  /\ firstSettled' =
                        IF AfterPut(o) = "settled"
                        THEN FirstSettled(firstSettled, k) ELSE firstSettled
    /\ UNCHANGED <<pc, sep, prefix, bucketVars, folderKind, docx_files,
                   object_names, signing, upload_results, abort, envVars>>

\* get_file_url: async with session.client('s3', ...) as s3
T_UrlBegin(k) ==
    /\ pc = "Uploading"
    /\ taskPc[k] = "uploaded"
    /\ taskPc' = [taskPc EXCEPT ![k] = "signing"]
    /\ scopes' = [scopes EXCEPT ![k] = @ + 1]
    /\ UNCHANGED <<pc, sep, prefix, bucketVars, folderKind, docx_files,
                   object_names, taskFault, signing, results, firstSettled,
                   upload_results, abort, calls, envVars>>

\* get_file_url: generate_presigned_url or the except branch; return True, file_url
T_Url(k) ==
    /\ pc = "Uploading"
    /\ taskPc[k] = "signing"
    /\ calls' = Bump(calls, "presign")
    /\ scopes' = [scopes EXCEPT ![k] = ExitScope(@)]
    /\ taskPc' = [taskPc EXCEPT ![k] = "settled"]
    /\ firstSettled' = FirstSettled(firstSettled, k)
    /\ \E o \in SignOutcomes :
          /\ signing' = [signing EXCEPT ![k] = o]
          /\ results' = [results EXCEPT ![k] =
                            UploadFileResult(taskFault[k], GetFileUrl(object_names[k], o))]
    /\ UNCHANGED <<pc, sep, prefix, bucketVars, folderKind, docx_files,
                   object_names, taskFault, upload_results, abort, envVars>>

----------------------------------------------------------------------------
\* The join and the aggregation

\* a join that returns as soon as one task has failed
GatherDone_FirstFailure(tpc, res) ==
    \/ \A k \in 1..Len(tpc) : tpc[k] = "settled"
    \/ \E k \in 1..Len(tpc) : tpc[k] = "settled" /\ ~res[k].success

\* a join that returns as soon as one task has settled
GatherDone_FirstCompleted(tpc, res) ==
    \E k \in 1..Len(tpc) : tpc[k] = "settled"

\* results = await asyncio.gather(*tasks, return_exceptions=True) has returned
GatherDone(tpc, res) == \A k \in 1..Len(tpc) : tpc[k] = "settled"

\* the body of the aggregation loop: the entry stored for one gathered result
AggregateEntry(result) ==
    IF result.kind = "exception"
    THEN [success |-> FALSE, url |-> None]
    ELSE [success |-> result.success, url |-> result.url]

\* an aggregation loop that records only the uploads that succeeded
RECURSIVE AggregateLoop_SkipFailed(_, _, _, _, _)
AggregateLoop_SkipFailed(k, files, res, s, acc) ==
    IF k > Len(files) \/ k > Len(res) THEN acc
    ELSE AggregateLoop_SkipFailed(k + 1, files, res, s,
             IF AggregateEntry(res[k]).success
             THEN (StrPath(files[k], s) :> AggregateEntry(res[k])) @@ acc
             ELSE acc)

\* an aggregation loop that pairs the files with the results in reverse order
RECURSIVE AggregateLoop_Reversed(_, _, _, _, _)
AggregateLoop_Reversed(k, files, res, s, acc) ==
    IF k > Len(files) \/ k > Len(res) THEN acc
    ELSE AggregateLoop_Reversed(k + 1, files, res, s,
             (StrPath(files[k], s) :> AggregateEntry(res[Len(res) + 1 - k])) @@ acc)

\* for file_path, result in zip(docx_files, results): upload_results[str(file_path)] = ...
RECURSIVE AggregateLoop(_, _, _, _, _)
AggregateLoop(k, files, res, s, acc) ==
    IF k > Len(files) \/ k > Len(res) THEN acc
    ELSE AggregateLoop(k + 1, files, res, s,
             (StrPath(files[k], s) :> AggregateEntry(res[k])) @@ acc)

Aggregate ==
    /\ pc = "Uploading"
    /\ GatherDone(taskPc, results)
    /\ upload_results' = AggregateLoop(1, docx_files, results, sep, <<>>)
    /\ pc' = "Aggregated"
    /\ UNCHANGED <<sep, prefix, bucketVars, folderKind, taskVars, abort, calls, envVars>>

Next ==
    \/ Start
    \/ ListBuckets
    \/ CheckBucket
    \/ CreateBucket
    \/ ValidateFolder
    \/ ScanAndLaunch
    \/ \E k \in Tasks : T_Begin(k)
    \/ \E k \in Tasks : T_Read(k)
    \/ \E k \in Tasks : T_Put(k)
    \/ \E k \in Tasks : T_UrlBegin(k)
    \/ \E k \in Tasks : T_Url(k)
    \/ Aggregate

Spec == Init /\ [][Next]_vars

----------------------------------------------------------------------------
\* clear_proxy_environment

\* How many times the sanitizer is run in a row.
MaxClears == 2

\* the variables an environment may set
EnvKeys == {"HTTP_PROXY", "http_proxy", "HTTPS_PROXY", "https_proxy",
            "NO_PROXY", "no_proxy", "PATH"}
Environs == UNION {[K -> {"set"}] : K \in SUBSET EnvKeys}

\* proxy_vars
proxy_vars == <<"HTTP_PROXY", "http_proxy", "HTTPS_PROXY", "https_proxy",
                "NO_PROXY", "no_proxy">>

\* del os.environ[var]
DelEnv(env, var) == [k \in (DOMAIN env) \ {var} |-> env[k]]

\* a loop body without the membership test: del raises KeyError on an unset variable
DeleteIfSet_Unguarded(st, var) ==
    IF var \in DOMAIN st.env
    THEN [env |-> DelEnv(st.env, var), raised |-> st.raised]
    ELSE [env |-> st.env, raised |-> TRUE]

\* if var in os.environ: del os.environ[var]
DeleteIfSet(st, var) ==
    IF var \in DOMAIN st.env
    THEN [env |-> DelEnv(st.env, var), raised |-> st.raised]
    ELSE st

\* for var in proxy_vars: ...  (an exception ends the loop)
RECURSIVE ClearLoop(_, _)
ClearLoop(k, st) ==
    IF k > Len(proxy_vars) \/ st.raised THEN st
    ELSE ClearLoop(k + 1, DeleteIfSet(st, proxy_vars[k]))

\* clear_proxy_environment()
ClearProxyEnvironment ==
    /\ cleared < MaxClears
    /\ ~keyError
    /\ LET st == ClearLoop(1, [env |-> environ, raised |-> FALSE]) IN
          /\ environ' = st.env
          /\ keyError' = st.raised
          /\ cleared' = IF st.raised THEN cleared ELSE cleared + 1
    /\ UNCHANGED <<pc, sep, prefix, bucketVars, folderKind, taskVars,
                   upload_results, abort, calls, initial_environ>>

\* the process starts with any environment and has not yet run the sanitizer
InitEnv ==
    /\ UploaderInit
    /\ initial_environ \in Environs
    /\ environ = initial_environ
    /\ cleared = 0
    /\ keyError = FALSE

NextEnv == ClearProxyEnvironment

SpecEnv == InitEnv /\ [][NextEnv]_vars

----------------------------------------------------------------------------
\* Properties

PathOf(k) == StrPath(docx_files[k], sep)
DiscoveredPaths == {PathOf(k) : k \in Tasks}
Failure == [success |-> FALSE, url |-> None]
Finished == pc \in {"Aggregated", "EmptyResult", "Raised"}

\* C1: a run that passes its preconditions returns a mapping whose keys are
\* exactly the local paths of the discovered files, one entry per file,
\* whatever the per-file results were.
C1_OneEntryPerFile ==
    pc = "Aggregated" =>
        /\ DOMAIN upload_results = DiscoveredPaths
        /\ Cardinality(DOMAIN upload_results) = Len(docx_files)

C1_Witness ==
    /\ pc = "Aggregated"
    /\ Len(docx_files) >= 2
    /\ \A k \in Tasks : taskFault[k] # "none"
    /\ \E j, k \in Tasks : taskFault[j] = "io" /\ taskFault[k] = "client"

\* C2: when head_bucket faults with anything but not-found, create_bucket is
\* not called and the bucket is reported unusable.
C2_NoCreateUnlessNotFound ==
    headOutcome \in {"403", "other", "unexpected"} =>
        /\ calls.create = 0
        /\ ~bucket_created

\* C3: when head_bucket faults with 404, create_bucket is called exactly once
\* and create_bucket_if_not_exists returns whether that call succeeded; the
\* batch goes on only if it did.
C3_NotFoundCreatesOnce ==
    (headOutcome = "404" /\ pc # "CreatingBucket") =>
        /\ calls.create = 1
        /\ createOutcome # "unset"
        /\ bucket_created = (createOutcome = "ok")
        /\ (~bucket_created => pc = "EmptyResult" /\ abort = "bucket")

C3_Witness ==
    /\ headOutcome = "404"
    /\ createOutcome = "client"
    /\ pc = "EmptyResult"

\* C4: a fault in one task neither cancels a sibling nor changes its outcome:
\* when the batch has been aggregated every task that opened its client has
\* run its own read, every task that read its file has run its own put_object,
\* and each file's entry
\* is decided by that file's own faults alone.
C4_Isolation ==
    pc = "Aggregated" =>
        /\ calls.read = Cardinality({k \in Tasks : taskFault[k] # "connect"})
        /\ calls.put = Cardinality({k \in Tasks : taskFault[k] \notin {"connect", "io"}})
        /\ \A k \in Tasks :
              /\ PathOf(k) \in DOMAIN upload_results
              /\ upload_results[PathOf(k)].success = (taskFault[k] = "none")

C4_Witness ==
    /\ pc = "Aggregated"
    /\ \E i, j, k \in Tasks :
          /\ taskFault[i] = "unexpected"
          /\ taskFault[j] = "io"
          /\ taskFault[k] = "none"
          /\ upload_results[PathOf(k)].success

\* C5: every outcome, as returned by upload_file and as stored in the result
\* mapping, is either success with a non-empty url or failure with no url.
OutcomeShape(o) ==
    \/ o.success /\ o.url # None /\ Len(o.url[1]) > 0
    \/ ~o.success /\ o.url = None

C5_OutcomeShapes ==
    /\ \A k \in Tasks : taskPc[k] = "settled" => OutcomeShape(results[k])
    /\ \A p \in DOMAIN upload_results : OutcomeShape(upload_results[p])

C5_Witness ==
    /\ pc = "Aggregated"
    /\ \E p, q \in DOMAIN upload_results :
          /\ upload_results[p].success
          /\ ~upload_results[q].success
    /\ \E k \in Tasks : signing[k] = "fault"

\* C6: when put_object succeeded and signing faults, the task still returns
\* success with the url endpoint/bucket/key, and that is the entry stored.
C6_FallbackOnSigningFault ==
    \A k \in Tasks :
        (taskPc[k] = "settled" /\ signing[k] = "fault") =>
            LET u == endpoint_url \o <<"/", bucket_name, "/">> \o object_names[k] IN
            /\ results[k] = [kind |-> "value", success |-> TRUE, url |-> Some(u)]
            /\ pc = "Aggregated" =>
                  /\ PathOf(k) \in DOMAIN upload_results
                  /\ upload_results[PathOf(k)] = [success |-> TRUE, url |-> Some(u)]

C6_Witness ==
    /\ pc = "Aggregated"
    /\ prefix # <<>>
    /\ \E j, k \in Tasks : signing[j] = "fault" /\ signing[k] = "ok"

\* C7: upload_folder never raises: every run ends by returning a mapping.
C7_NoExceptionEscapes == pc # "Raised"

\* C8: a run returns an empty mapping exactly when one of the four early-abort
\* preconditions failed; every other run ends with a non-empty mapping in
\* which every failure is a (False, None) entry.
PreconditionFailed ==
    \/ calls.list > 0 /\ buckets = <<>>
    \/ buckets # <<>> /\ BucketMissing(buckets) /\ headOutcome # "ok" /\ createOutcome # "ok"
    \/ folderKind \in {"missing", "file"}
    \/ calls.scan > 0 /\ pc # "Raised" /\ docx_files = <<>>

C8_EmptyOnlyOnPrecondition ==
    Finished =>
        IF PreconditionFailed
        THEN pc = "EmptyResult" /\ upload_results = <<>>
        ELSE /\ pc = "Aggregated"
             /\ upload_results # <<>>
             /\ \A p \in DOMAIN upload_results :
                   upload_results[p].success \/ upload_results[p] = Failure

\* C9: when list_buckets returns an empty list, upload_folder returns an empty
\* mapping and has issued no head_bucket, create_bucket, folder stat, scan,
\* file read or put_object.
C9_EmptyListingStopsEverything ==
    (calls.list > 0 /\ buckets = <<>>) =>
        /\ pc = "EmptyResult"
        /\ upload_results = <<>>
        /\ calls.head = 0 /\ calls.create = 0
        /\ calls.stat = 0 /\ calls.scan = 0
        /\ calls.read = 0 /\ calls.put = 0 /\ calls.presign = 0

C9_Witness ==
    /\ pc = "EmptyResult"
    /\ abort = "connectivity"
    /\ calls.list = 1
    /\ buckets = <<>>

\* C10: the result mapping changes only in the driver's aggregation step, which
\* runs once every task has settled and touches no task.
C10_AggregateAfterJoin ==
    [][upload_results' # upload_results =>
          /\ pc = "Uploading" /\ pc' = "Aggregated"
          /\ \A k \in Tasks : taskPc[k] = "settled"
          /\ UNCHANGED taskVars]_vars

C10_Witness ==
    /\ pc = "Aggregated"
    /\ Len(docx_files) >= 3
    /\ Cardinality(DOMAIN upload_results) = Len(docx_files)
    /\ \A k \in Tasks : taskPc[k] = "settled"

\* C11: a run moves through its phases only forwards, Idle, ListingBuckets,
\* EnsuringBucket, Scanning, Uploading, Aggregated, leaving early only to
\* EmptyResult; no task runs and no file is read or put before the listing was
\* non-empty, the bucket was listed, found or created, and the scan returned
\* files; once a run has ended no further call is issued.
PhaseOf(p) ==
    CASE p \in {"CheckingBucket", "CreatingBucket"} -> "EnsuringBucket"
      [] p \in {"Validating", "Scanning"} -> "Scanning"
      [] OTHER -> p

PhaseMoves ==
    {<<"Idle", "ListingBuckets">>,
     <<"ListingBuckets", "EnsuringBucket">>,
     <<"ListingBuckets", "Scanning">>,
     <<"ListingBuckets", "EmptyResult">>,
     <<"EnsuringBucket", "Scanning">>,
     <<"EnsuringBucket", "EmptyResult">>,
     <<"Scanning", "Uploading">>,
     <<"Scanning", "EmptyResult">>,
     <<"Uploading", "Aggregated">>}

BucketReady ==
    \/ bucket_name \in Range(buckets)
    \/ headOutcome = "ok"
    \/ createOutcome = "ok"

C11_PhaseOrder ==
    /\ [][(PhaseOf(pc') # PhaseOf(pc) /\ pc' # "Raised") =>
             <<PhaseOf(pc), PhaseOf(pc')>> \in PhaseMoves]_vars
    /\ []((calls.read > 0 \/ calls.put > 0 \/ taskPc # <<>>) =>
             /\ pc \in {"Uploading", "Aggregated"}
             /\ buckets # <<>>
             /\ BucketReady
             /\ folderKind = "dir"
             /\ calls.scan = 1)
    /\ [][Finished => (calls' = calls /\ pc' = pc)]_vars

C11_Witness ==
    /\ pc = "Aggregated"
    /\ headOutcome = "404"
    /\ createOutcome = "ok"
    /\ calls.put > 0

\* C12: each task's object key is the prefix followed by the file's relative
\* path, with every backslash turned into a forward slash: it holds no
\* backslash, and sub\dir\f2.docx or sub/dir/f2.docx under prefix out/ gives
\* out/sub/dir/f2.docx.
C12_ObjectKeys ==
    \A k \in Tasks :
        LET raw == prefix \o RelativePath(docx_files[k], sep)
            key == object_names[k]
        IN /\ Len(key) = Len(raw)
           /\ \A i \in 1..Len(key) :
                 /\ key[i] # "\\"
                 /\ key[i] = IF raw[i] = "\\" THEN "/" ELSE raw[i]
           /\ (docx_files[k] = 2 /\ prefix = <<"out", "/">>) =>
                 key = <<"out", "/", "sub", "/", "dir", "/", "f2", ".docx">>

C12_Witness ==
    /\ pc = "Uploading"
    /\ sep = "\\"
    /\ prefix = <<"out", "/">>
    /\ \E k \in Tasks :
          /\ docx_files[k] = 2
          /\ object_names[k] = <<"out", "/", "sub", "/", "dir", "/", "f2", ".docx">>

\* C13: upload_file never raises: whatever faulted (opening the client, reading
\* the file, put_object with a client or an unexpected fault) the task settles
\* with the value (False, None).
C13_UploadFileNeverRaises ==
    \A k \in Tasks :
        /\ results[k].kind # "exception"
        /\ taskPc[k] = "settled" => results[k].kind = "value"
        /\ (taskPc[k] = "settled" /\ taskFault[k] # "none") =>
              results[k] = [kind |-> "value", success |-> FALSE, url |-> None]

C13_Witness ==
    \E i, j, k \in Tasks :
        /\ taskPc[i] = "settled" /\ taskFault[i] = "connect"
        /\ taskPc[j] = "settled" /\ taskFault[j] = "io"
        /\ taskPc[k] = "settled" /\ taskFault[k] = "unexpected"

\* C14: a connection scope is held only inside the block that opened it: the
\* driver's calls hold none between steps, a task holds at most one, none
\* before its client is opened, between put_object and get_file_url, or once it
\* has settled, and none is open when upload_folder has ended.
C14_ScopesReleased ==
    /\ driverScopes = 0
    /\ \A k \in Tasks :
          /\ scopes[k] \in {0, 1}
          /\ taskPc[k] \in {"start", "uploaded", "settled"} => scopes[k] = 0
    /\ Finished => \A k \in Tasks : scopes[k] = 0

C14_Witness ==
    /\ pc = "Aggregated"
    /\ calls.head = 1
    /\ \E i, j, k \in Tasks :
          /\ taskFault[i] = "io"
          /\ taskFault[j] = "client"
          /\ signing[k] = "fault"

\* C15: after clear_proxy_environment has run, none of the six proxy variables
\* is set, every other variable is as it was, no KeyError was raised whatever
\* was set before, and a further run changes nothing.
ProxyNames == {"HTTP_PROXY", "http_proxy", "HTTPS_PROXY", "https_proxy",
               "NO_PROXY", "no_proxy"}

C15_SanitizerClearsAndIsIdempotent ==
    /\ [](~keyError)
    /\ [](cleared >= 1 =>
            /\ (DOMAIN environ) \cap ProxyNames = {}
            /\ DOMAIN environ = (DOMAIN initial_environ) \ ProxyNames)
    /\ [][cleared >= 1 => environ' = environ]_vars

C15_Witness ==
    /\ cleared = 2
    /\ "HTTP_PROXY" \in DOMAIN initial_environ
    /\ "http_proxy" \notin DOMAIN initial_environ
    /\ "no_proxy" \in DOMAIN initial_environ
    /\ DOMAIN environ = {"PATH"}


\* C16: get_file_url is called for a task only after that task's put_object
\* succeeded, and once: the signing calls issued are as many as the tasks that
\* signed, and a task whose client, read or put faulted never signs.
C16_UrlOnlyAfterPut ==
    /\ \A k \in Tasks :
          /\ signing[k] # "unset" =>
                taskFault[k] = "none" /\ taskPc[k] = "settled" /\ results[k].success
          /\ taskFault[k] # "none" => signing[k] = "unset"
          /\ taskPc[k] \in {"start", "opened", "read", "uploaded"} => signing[k] = "unset"
    /\ calls.presign = Cardinality({k \in Tasks : signing[k] # "unset"})
    /\ calls.presign <= calls.put

C16_Witness ==
    /\ pc = "Aggregated"
    /\ calls.presign = 1
    /\ calls.put = 2
    /\ \E j, k \in Tasks : taskFault[j] = "client" /\ signing[k] = "ok"

\* C17, as claimed: a file that cannot be read makes upload_file raise, and the
\* orchestrator receives the exception.
C17_IoFaultReachesCaller ==
    \A k \in Tasks :
        (taskPc[k] = "settled" /\ taskFault[k] = "io") => results[k].kind = "exception"

\* C17, amended: a file that cannot be read is handled inside upload_file, which
\* returns (False, None); the orchestrator receives that value, not an
\* exception, and stores it.
C17_IoFaultHandledInUploadFile ==
    \A k \in Tasks :
        (taskPc[k] = "settled" /\ taskFault[k] = "io") =>
            /\ results[k] = [kind |-> "value", success |-> FALSE, url |-> None]
            /\ signing[k] = "unset"
            /\ pc = "Aggregated" =>
                  /\ PathOf(k) \in DOMAIN upload_results
                  /\ upload_results[PathOf(k)] = Failure

C17_Witness ==
    /\ pc = "Aggregated"
    /\ calls.put = 0
    /\ \E k \in Tasks : taskFault[k] = "io" /\ upload_results[PathOf(k)] = Failure

\* C18: the entry stored under a file's path is built from that file's own
\* task: its success flag from that task's faults and its url from that file's
\* own object key, whichever task settled first.
OwnUrl(k) ==
    endpoint_url \o <<"/", bucket_name, "/">> \o object_names[k]
        \o (IF signing[k] = "ok" THEN <<"?", "X-Amz-Signature">> ELSE <<>>)

C18_OwnOutcome ==
    pc = "Aggregated" =>
        \A k \in Tasks :
            /\ PathOf(k) \in DOMAIN upload_results
            /\ upload_results[PathOf(k)] =
                  IF taskFault[k] = "none"
                  THEN [success |-> TRUE, url |-> Some(OwnUrl(k))]
                  ELSE [success |-> FALSE, url |-> None]

C18_Witness ==
    /\ pc = "Aggregated"
    /\ Len(docx_files) >= 2
    /\ firstSettled = Len(docx_files)
    /\ taskFault[1] = "none"
    /\ taskFault[Len(docx_files)] # "none"

\* C19: head_bucket and create_bucket are called only after a non-empty
\* listing that lacks the bucket, each at most once; after an empty listing,
\* also from a store that answered with no buckets, neither is called and the
\* run ends empty; after a listing that holds the bucket neither is called.
C19_ProbeOnlyWhenUnlisted ==
    /\ calls.head <= 1 /\ calls.create <= 1
    /\ (calls.head > 0 \/ calls.create > 0) =>
          buckets # <<>> /\ bucket_name \notin Range(buckets)
    /\ calls.create > 0 => calls.head = 1
    /\ (listOutcome # "unset" /\ buckets = <<>>) =>
          calls.head = 0 /\ calls.create = 0 /\ pc = "EmptyResult"
    /\ (buckets # <<>> /\ bucket_name \notin Range(buckets) /\ pc # "CheckingBucket") =>
          calls.head = 1

C19_Witness ==
    /\ listOutcome = "ok"
    /\ buckets = <<>>
    /\ pc = "EmptyResult"
    /\ calls.head = 0

\* C20: a run that can take no further step has ended in Aggregated or in
\* EmptyResult.
C20_EndsAggregatedOrEmpty ==
    pc \in {"Aggregated", "EmptyResult"} \/ ENABLED Next

====
